---- MODULE Spec2Model ----
(***************************************************************************)
(* A model of scripts/flash.py: the disk discovery and safe-flash          *)
(* orchestrator.  One behaviour is one invocation of main().  A Python     *)
(* str is a sequence of one-character strings; the one-element string      *)
(* "sup2" stands for the single character U+00B2 (SUPERSCRIPT TWO).        *)
(***************************************************************************)
EXTENDS Integers, Sequences, FiniteSets, TLC

VARIABLES
    pc,             \* position of main(): the statement about to run
    platform,       \* platform.system().lower()
    args,           \* argparse result: image, yes, include_internal
    fs,             \* which of target/esp.img and args.image exist on disk
    staging,        \* target/esp: "absent" or the set of files in it
    items,          \* esp_dir.iterdir() entries still to mcopy
    disks,          \* result of list_disks_macos / list_disks_linux
    candidates,     \* choose_disk: the candidates offered
    disk,           \* main's local `disk`
    authorized,     \* the Disk confirm_destruction returned normally for
    headers,        \* list_disks_macos: matched header lines still to query
    sel,            \* choose_disk: the last stripped input line
    typed,          \* confirm_destruction: the line input() returned
    resp,           \* confirm_destruction: that line stripped
    confirmPrompts, \* how often the "Type '...' to continue: " prompt was shown
    ip,             \* flash_macos / flash_linux: index of the next step
    mounts,         \* unmount_all_linux: mount points still to unmount
    cmds,           \* every external command started, in order, with its result
    printed,        \* the messages printed so far (the two rejection
                    \* messages of choose_disk are not recorded)
    error,          \* the exception that ended the run, if any
    exitCode,       \* the process exit status, -1 while running
    parsed,         \* SpecEnum: the tool output the enumerator was given
    prior           \* SpecStage: the staging tree at the start of each run

vars == <<pc, platform, args, fs, staging, items, headers, disks, candidates,
          disk, authorized, sel, typed, resp, confirmPrompts, ip, mounts,
          cmds, printed, error, exitCode, parsed, prior>>

----------------------------------------------------------------------------
(* Bounds of the model *)

MaxDisks == 2          \* block devices in one listing
MaxMounts == 2         \* mounted children of the target device

----------------------------------------------------------------------------
(* Python str *)

None == <<"<None>">>
Falsy(x) == x = None \/ x = <<>>
Or(x, y) == IF Falsy(x) THEN y ELSE x

Whitespace == {" ", "\t"}

RECURSIVE lstrip(_)
lstrip(s) == IF s # <<>> /\ Head(s) \in Whitespace THEN lstrip(Tail(s)) ELSE s

RECURSIVE rstrip(_)
rstrip(s) ==
    IF s # <<>> /\ s[Len(s)] \in Whitespace
    THEN rstrip(SubSeq(s, 1, Len(s) - 1)) ELSE s

strip(s) == rstrip(lstrip(s))

LowerChar(c) ==
    CASE c = "E" -> "e" [] c = "R" -> "r" [] c = "A" -> "a" [] c = "S" -> "s"
      [] c = "U" -> "u" [] c = "B" -> "b" [] c = "T" -> "t"
      [] OTHER -> c
lower(s) == [i \in 1..Len(s) |-> LowerChar(s[i])]

Contains(sub, s) ==
    \E i \in 1..(Len(s) - Len(sub) + 1) : SubSeq(s, i, i + Len(sub) - 1) = sub

\* str.isdigit(): non-empty and every character has the Unicode property
\* Digit; U+00B2 has it although it is no decimal character.
DecimalChars == {"0", "1", "2", "5"}
DigitChars == DecimalChars \cup {"sup2"}
isdigit(s) == s # <<>> /\ \A i \in 1..Len(s) : s[i] \in DigitChars

DigitVal(c) == CASE c = "0" -> 0 [] c = "1" -> 1 [] c = "2" -> 2 [] c = "5" -> 5

\* int(s) for a string that passed isdigit: ValueError unless all decimal.
IntRaises(s) == \E i \in 1..Len(s) : s[i] \notin DecimalChars
RECURSIVE int(_)
int(s) ==
    IF s = <<>> THEN 0
    ELSE 10 * int(SubSeq(s, 1, Len(s) - 1)) + DigitVal(s[Len(s)])

Fmt(x) == IF x = None THEN <<"N", "o", "n", "e">> ELSE x      \* f"{x}"

\* " ".join(filter(None, xs))
RECURSIVE JoinTruthy(_)
JoinTruthy(xs) ==
    IF xs = <<>> THEN <<>>
    ELSE IF Falsy(Head(xs)) THEN JoinTruthy(Tail(xs))
    ELSE LET rest == JoinTruthy(Tail(xs))
         IN IF rest = <<>> THEN Head(xs) ELSE Head(xs) \o <<" ">> \o rest

----------------------------------------------------------------------------
(* String literals of the program *)

S_dev == <<"/", "d", "e", "v", "/">>
S_r == <<"r">>
S_disk == <<"d", "i", "s", "k">>
S_sd == <<"s", "d">>
S_ERASE == <<"E", "R", "A", "S", "E", " ">>
S_internal == <<"i", "n", "t", "e", "r", "n", "a", "l">>
S_external == <<"e", "x", "t", "e", "r", "n", "a", "l">>
S_usb == <<"u", "s", "b">>
S_USB == <<"U", "S", "B">>
S_unknown == <<"?">>
S_default_image == "target/esp.img"
S_select == "Select disk index to flash: "
S_type == "Type 'ERASE <path>' to continue: "

----------------------------------------------------------------------------
(* Disk: the dataclass, and the two enumerators *)

Disk(path, display_path, size, model, transport, removable, internal) ==
    [path |-> path, display_path |-> display_path, size |-> size,
     model |-> model, transport |-> transport,
     removable |-> removable, internal |-> internal]

NoDisk == Disk(<<>>, <<>>, <<>>, <<>>, <<>>, FALSE, FALSE)

\* The Disk appended for one header line h matched by header_re; info holds
\* the three regex searches of the `diskutil info` output (None: no match).
macos_disk(h, info) ==
    LET dev == h.dev
        internal == Contains(S_internal, h.flags)
        external == Contains(S_external, h.flags)
        size == IF info.size_match # None THEN info.size_match ELSE S_unknown
        model ==
            strip(IF info.model_match # None THEN strip(info.model_match) ELSE <<>>)
        transport ==
            strip(IF info.transport_match # None
                  THEN strip(info.transport_match) ELSE <<>>)
    IN Disk(S_dev \o dev, S_dev \o S_r \o dev, size, Or(model, dev),
            Or(transport, IF external THEN S_USB ELSE <<>>), external, internal)

\* bool(x) of a JSON scalar, written as its JSON text: false, null, 0 and
\* the empty string are falsy; every other value, the string "0" too, is truthy.
bool(x) == x \notin {"false", "null", "0", "\"\""}

\* One entry of "blockdevices" of type "disk".
linux_disk(dev) ==
    LET name == Or(dev.kname, dev.name)
        path == S_dev \o Fmt(name)
        size == Or(dev.size, S_unknown)
        model == strip(JoinTruthy(<<dev.vendor, dev.model>>))
        transport == Or(dev.tran, <<>>)
        removable == bool(dev.rm) \/ lower(transport) \in {S_usb}
    IN Disk(path, path, size, Or(model, name), transport, removable, ~removable)

RECURSIVE list_disks_linux(_)
list_disks_linux(blockdevices) ==
    IF blockdevices = <<>> THEN <<>>
    ELSE IF Head(blockdevices).type # "disk"
         THEN list_disks_linux(Tail(blockdevices))
         ELSE <<linux_disk(Head(blockdevices))>> \o list_disks_linux(Tail(blockdevices))

----------------------------------------------------------------------------
(* What the platform tools can report (the inputs of one run) *)

DevDigits == <<"0", "1", "2", "3", "4">>
DevLetters == <<"a", "b", "c", "d", "e">>
S_size == <<"8", " ", "G", "B">>
S_physical == <<",", " ", "p", "h", "y", "s", "i", "c", "a", "l">>
S_synthesized == <<"s", "y", "n", "t", "h", "e", "s", "i", "z", "e", "d">>

\* The i-th header line of `diskutil list` that header_re matches.
MacHeaders(i) ==
    { [dev |-> S_disk \o <<DevDigits[i]>>, flags |-> f] :
      f \in {S_internal \o S_physical, S_external \o S_physical, S_synthesized} }

\* The regex matches in the output of `diskutil info`.
InfoMatches ==
    { [size_match |-> S_size, model_match |-> None, transport_match |-> None] }

\* The i-th block device of `lsblk -J`.
LinuxDevs(i) ==
    { [name |-> S_sd \o <<DevLetters[i]>>, kname |-> S_sd \o <<DevLetters[i]>>,
       type |-> t, rm |-> rm, size |-> S_size, model |-> None, tran |-> tr,
       vendor |-> None] :
      t \in {"disk", "part"}, rm \in {"true", "false"}, tr \in {None, S_usb} }

\* What the listing tool of platform sys can report for its i-th device.
Devices(sys, i) == IF sys = "darwin" THEN MacHeaders(i) ELSE LinuxDevs(i)

\* All listings of at most n devices on platform sys.
RECURSIVE Listings(_, _)
Listings(sys, n) ==
    IF n = 0 THEN {<<>>}
    ELSE LET shorter == Listings(sys, n - 1)
         IN shorter \cup
            { Append(l, d) : l \in {x \in shorter : Len(x) = n - 1},
                             d \in Devices(sys, n) }

\* Lines the operator can type at "Select disk index to flash: ".
IndexInputs ==
    { <<>>, <<" ">>, <<"0">>, <<"1">>, <<"2">>, <<"5">>, <<"1", "0">>,
      <<" ", "1", " ">>, <<"\t", "0">>, <<"1", " ", "0">>,
      <<"-", "1">>, <<"+", "1">>, <<"a">>, <<"1", "a">>, <<"1", ".", "0">>,
      <<"sup2">>, <<"1", "sup2">> }

\* Lines the operator can type at "Type 'ERASE <path>' to continue: ".
ResponseInputs(phrase, other) ==
    { phrase, lower(phrase), <<" ">> \o phrase \o <<" ", "\t">>,
      SubSeq(phrase, 1, Len(phrase) - 1), SubSeq(phrase, 1, 5),
      SubSeq(phrase, 1, 6) \o <<" ">> \o SubSeq(phrase, 7, Len(phrase)),
      SubSeq(phrase, 1, 5) \o SubSeq(phrase, 7, Len(phrase)),
      SubSeq(phrase, 7, Len(phrase)), phrase \o <<"x">>, phrase \o <<" ", "x">>,
      <<>>, <<"y">>, other }

\* How a blocking call can end: it returns with exit status 0, returns or
\* raises with a non-zero status, or is cut short by the operator's interrupt.
Results == {"ok", "fail", "intr"}

----------------------------------------------------------------------------
(* The program *)

StagingStates ==
    { [exists |-> FALSE, files |-> {}], [exists |-> TRUE, files |-> {}],
      [exists |-> TRUE, files |-> {<<"stale.txt">>}],
      [exists |-> TRUE,
       files |-> {<<"EFI", "BOOT", "BOOTX64.EFI">>, <<"startup.nsh">>,
                  <<"EFI", "BOOT", "old.efi">>}] }

Init ==
    /\ pc = "ensure_image"
    /\ platform \in {"darwin", "linux", "windows"}
    /\ args \in [image : {S_default_image, "other.img"}, yes : BOOLEAN,
                 include_internal : BOOLEAN]
    /\ fs \in SUBSET {args.image}
    /\ staging \in StagingStates
    /\ items = <<>>
    /\ headers = <<>>
    /\ disks = <<>>
    /\ candidates = <<>>
    /\ disk = NoDisk
    /\ authorized = NoDisk
    /\ sel = <<>>
    /\ typed = None
    /\ resp = <<>>
    /\ confirmPrompts = 0
    /\ ip = 0
    /\ mounts = <<>>
    /\ cmds = <<>>
    /\ printed = {}
    /\ error = "none"
    /\ exitCode = -1
    /\ parsed = <<>>
    /\ prior = <<>>

Goto(p, msgs) ==
    /\ pc' = p
    /\ printed' = printed \cup msgs
    /\ UNCHANGED <<error, exitCode>>

\* sys.exit(code), an exception leaving main(), or main() returning.
Exit(code, msgs, err) ==
    /\ pc' = "exit"
    /\ exitCode' = code
    /\ printed' = printed \cup msgs
    /\ error' = err

\* The handler of __main__: KeyboardInterrupt is caught and the script ends.
KeyboardInterrupt(pre) ==
    Exit(0, pre \cup {"Aborted by user."}, "KeyboardInterrupt")

\* An exception nothing catches: traceback, exit status 1.
Uncaught(err, msgs) == Exit(1, msgs \cup {"Traceback"}, err)

Cmd(name, arg, src, check, res) ==
    [cmd |-> name, arg |-> arg, src |-> src, check |-> check, res |-> res]

\* Mutant: run never raises on a non-zero exit status.
run_unchecked(name, arg, src, check, res, pre, Returns, Raised) ==
    /\ cmds' = Append(cmds, Cmd(name, arg, src, check, res))
    /\ IF res = "intr" THEN KeyboardInterrupt(pre) /\ Raised
       ELSE Returns

\* run(cmd, check): the command is executed once; Returns is what the caller
\* does with the result, Raised what holds when run does not return.
\* pre: what the caller printed just before the call.
run(name, arg, src, check, res, pre, Returns, Raised) ==
    /\ cmds' = Append(cmds, Cmd(name, arg, src, check, res))
    /\ IF res = "intr" THEN KeyboardInterrupt(pre) /\ Raised
       ELSE IF check /\ res = "fail"
            THEN Uncaught("CalledProcessError", pre \cup {"Command failed"}) /\ Raised
            ELSE Returns

----------------------------------------------------------------------------
(* ensure_image *)

S_staged == {<<"EFI", "BOOT", "BOOTX64.EFI">>, <<"startup.nsh">>}

\* Mutant: the staging directory is not removed before it is filled.
restage_no_rmtree(st) ==
    [exists |-> TRUE, files |-> st.files \cup S_staged]

\* Lines 124-136: rmtree if present, mkdir -p EFI/BOOT, copy the binary,
\* write startup.nsh.
restage(st) ==
    LET removed == IF st.exists THEN [exists |-> FALSE, files |-> {}] ELSE st
        made == [exists |-> TRUE, files |-> removed.files]
    IN [made EXCEPT !.files = @ \cup S_staged]

iterdir(st) == {f[1] : f \in st.files}

\* The orders in which a directory listing can come.
Orders(S) ==
    {s \in [1..Cardinality(S) -> S] : \A x \in S : \E i \in DOMAIN s : s[i] = x}

\* Mutant: ensure_image returns without looking for the image file.
image_check_skipped(files) ==
    IF platform \notin {"darwin", "linux"}
    THEN Exit(2, {"Unsupported OS"}, "SystemExit")
    ELSE Goto("list_disks", {})

\* Lines 143-146 of ensure_image, then main's dispatch on platform.system().
image_check(files) ==
    IF args.image \notin files
    THEN Exit(1, {"Image not found", "Build failed, esp.img not created."},
              "SystemExit")
    ELSE IF platform \notin {"darwin", "linux"}
         THEN Exit(2, {"Unsupported OS"}, "SystemExit")
         ELSE Goto("list_disks", {})

rest == <<headers, disks, candidates, disk, authorized, sel, typed, resp,
          confirmPrompts, ip, mounts>>

ensure_image_build ==
    /\ pc = "ensure_image"
    /\ \E res \in Results :
         run("cargo build", <<>>, "", TRUE, res, {"Building UEFI image..."},
             /\ staging' = restage(staging)
             /\ Goto("qemu-img", {"Building UEFI image..."}),
             UNCHANGED staging)
    /\ UNCHANGED <<platform, args, parsed, prior, fs, items>>
    /\ UNCHANGED rest

ensure_image_create ==
    /\ pc = "qemu-img"
    /\ \E res \in Results :
         run("qemu-img create", <<>>, S_default_image, TRUE, res, {},
             /\ fs' = fs \cup {S_default_image}
             /\ Goto("mformat", {}),
             UNCHANGED fs)
    /\ UNCHANGED <<platform, args, parsed, prior, staging, items>>
    /\ UNCHANGED rest

ensure_image_format ==
    /\ pc = "mformat"
    /\ \E res \in Results :
         run("mformat", <<>>, S_default_image, TRUE, res, {},
             \E order \in Orders(iterdir(staging)) :
                /\ items' = order
                /\ IF order = <<>> THEN image_check(fs) ELSE Goto("mcopy", {}),
             UNCHANGED items)
    /\ UNCHANGED <<platform, args, parsed, prior, fs, staging>>
    /\ UNCHANGED rest

ensure_image_copy ==
    /\ pc = "mcopy"
    /\ \E res \in Results :
         run("mcopy", <<>>, Head(items), TRUE, res, {},
             /\ items' = Tail(items)
             /\ IF Tail(items) = <<>> THEN image_check(fs) ELSE Goto("mcopy", {}),
             UNCHANGED items)
    /\ UNCHANGED <<platform, args, parsed, prior, fs, staging>>
    /\ UNCHANGED rest

----------------------------------------------------------------------------
(* Disk Selector and Safety Gate *)

\* Mutant: the filter keeps every disk.
Candidates_all(ds, include_internal) == ds

\* Mutant: the override flag is ignored by the filter.
Candidates_removable_only(ds, include_internal) ==
    SelectSeq(ds, LAMBDA d : d.removable)

\* candidates = [d for d in disks if d.removable or include_internal]
RECURSIVE Candidates(_, _)
Candidates(ds, include_internal) ==
    IF ds = <<>> THEN <<>>
    ELSE IF Head(ds).removable \/ include_internal
         THEN <<Head(ds)>> \o Candidates(Tail(ds), include_internal)
         ELSE Candidates(Tail(ds), include_internal)

\* phrase = f"ERASE {disk.path}"
Phrase(d) == S_ERASE \o d.path

\* Mutant: flash_macos writes to the buffered device node.
dd_of_macos_path(d) == d.path

\* The write target of dd.
dd_of_macos(d) == d.display_path
dd_of_linux(d) == d.path
dd_of(d) == IF platform = "darwin" THEN dd_of_macos(d) ELSE dd_of_linux(d)

\* Mutant: flash_macos writes before it unmounts.
flash_macos_write_first ==
    << [cmd |-> "dd", check |-> TRUE],
       [cmd |-> "diskutil unmountDisk", check |-> TRUE],
       [cmd |-> "sync", check |-> FALSE],
       [cmd |-> "diskutil eject", check |-> FALSE] >>

\* Mutant: flash_macos passes check=False to the dd call.
flash_macos_dd_unchecked ==
    << [cmd |-> "diskutil unmountDisk", check |-> TRUE],
       [cmd |-> "dd", check |-> FALSE],
       [cmd |-> "sync", check |-> FALSE],
       [cmd |-> "diskutil eject", check |-> FALSE] >>

\* Mutant: flash_linux leaves the sync call checked.
flash_linux_sync_checked ==
    << [cmd |-> "unmount_all_linux", check |-> TRUE],
       [cmd |-> "dd", check |-> TRUE],
       [cmd |-> "sync", check |-> TRUE],
       [cmd |-> "udisksctl power-off", check |-> FALSE] >>

\* The bodies of flash_macos and flash_linux: the steps in program order,
\* each with the check flag its run() call passes.
flash_macos ==
    << [cmd |-> "diskutil unmountDisk", check |-> TRUE],
       [cmd |-> "dd", check |-> TRUE],
       [cmd |-> "sync", check |-> FALSE],
       [cmd |-> "diskutil eject", check |-> FALSE] >>

flash_linux ==
    << [cmd |-> "unmount_all_linux", check |-> TRUE],
       [cmd |-> "dd", check |-> TRUE],
       [cmd |-> "sync", check |-> FALSE],
       [cmd |-> "udisksctl power-off", check |-> FALSE] >>

\* check flag of the umount calls of unmount_all_linux.
umount_check == FALSE

flash == IF platform = "darwin" THEN flash_macos ELSE flash_linux

\* The flash step about to run.
step == IF pc \in {"flash", "unmount_all_linux"} /\ ip \in 1..Len(flash)
        THEN flash[ip] ELSE [cmd |-> "", check |-> FALSE]

\* Mutant: the comparison ignores letter case.
mismatch_nocase(r, phrase) == lower(r) # lower(phrase)

\* line 212: the typed response is not the phrase.
mismatch(r, phrase) == r # phrase

\* Mutant: a mismatch asks again instead of exiting.
abort_confirm_retry == Goto("confirm_destruction", {S_type, "Aborted."})

\* lines 213-214: print("Aborted."); sys.exit(3)
abort_confirm == Exit(3, {S_type, "Aborted."}, "SystemExit")

\* flash_macos / flash_linux is entered: confirm_destruction returned for d.
enter_flash(d, pre) ==
    /\ authorized' = d
    /\ ip' = 1
    /\ Goto("flash", pre \cup {"Using disk"})

\* Mutant: main goes from choose_disk straight to the flash.
enter_confirm_no_gate(d, pre) ==
    /\ disk' = d
    /\ ip' = 1
    /\ UNCHANGED authorized
    /\ Goto("flash", pre \cup {"Using disk"})

\* confirm_destruction up to its prompt, for main's disk d.
enter_confirm(d, pre) ==
    LET warned == pre \cup {"WARNING: This will ERASE all data on:"}
    IN /\ disk' = d
       /\ IF args.yes
          THEN enter_flash(d, warned)
          ELSE /\ UNCHANGED <<authorized, ip>>
               /\ Goto("confirm_destruction", warned)

\* Mutant: choose_disk prompts even when nothing is selectable.
enter_choose_always_prompts(ds, pre) ==
    /\ disks' = ds
    /\ IF ds = <<>>
       THEN /\ UNCHANGED candidates
            /\ Exit(2, pre \cup {"No disks found"}, "SystemExit")
       ELSE /\ candidates' = Candidates(ds, args.include_internal)
            /\ Goto("choose_disk", {"Available disks:"})

\* main after the enumerator returned ds, and choose_disk up to its prompt.
enter_choose(ds, pre) ==
    /\ disks' = ds
    /\ IF ds = <<>>
       THEN /\ UNCHANGED candidates
            /\ Exit(2, pre \cup {"No disks found"}, "SystemExit")
       ELSE /\ candidates' = Candidates(ds, args.include_internal)
            /\ IF candidates' = <<>>
               THEN Exit(2, {"No suitable disks found. Try --include-internal to show all."},
                         "SystemExit")
               ELSE Goto("choose_disk", {"Available disks:"})

\* The statement after the current flash step: the next step, or the
\* closing print and the return to main, which ends the run.
advance ==
    IF ip >= Len(flash)
    THEN /\ ip' = ip
         /\ Exit(0, {"Done. You can now remove the USB drive."}, "none")
    ELSE /\ ip' = ip + 1
         /\ Goto("flash", {})

S_mnt == <<"/", "m", "n", "t", "/">>

build == <<platform, args, parsed, prior, fs, staging, items>>

----------------------------------------------------------------------------
(* Enumeration *)

do_list_disks_macos ==
    /\ pc = "list_disks" /\ platform = "darwin"
    /\ \E res \in Results :
         run("diskutil list", <<>>, "", TRUE, res, {},
             \E hs \in Listings("darwin", MaxDisks) :
                /\ headers' = hs
                /\ IF hs = <<>> THEN enter_choose(<<>>, {})
                   ELSE /\ disks' = <<>>
                        /\ UNCHANGED candidates
                        /\ Goto("diskutil info", {}),
             UNCHANGED <<headers, disks, candidates>>)
    /\ UNCHANGED build
    /\ UNCHANGED <<disk, authorized, sel, typed, resp, confirmPrompts, ip, mounts>>

do_diskutil_info ==
    /\ pc = "diskutil info"
    /\ \E res \in Results :
         run("diskutil info", S_dev \o Head(headers).dev, "", FALSE, res, {},
             \E info \in InfoMatches :
                LET ds == Append(disks, macos_disk(Head(headers), info))
                IN /\ headers' = Tail(headers)
                   /\ IF Tail(headers) = <<>> THEN enter_choose(ds, {})
                      ELSE /\ disks' = ds
                           /\ UNCHANGED candidates
                           /\ Goto("diskutil info", {}),
             UNCHANGED <<headers, disks, candidates>>)
    /\ UNCHANGED build
    /\ UNCHANGED <<disk, authorized, sel, typed, resp, confirmPrompts, ip, mounts>>

do_list_disks_linux ==
    /\ pc = "list_disks" /\ platform = "linux"
    /\ \E which_lsblk \in BOOLEAN :
         IF ~which_lsblk
         THEN /\ UNCHANGED cmds
              /\ enter_choose(<<>>, {"lsblk not found. Please install util-linux."})
         ELSE \E res \in Results :
                run("lsblk -J -o", <<>>, "", TRUE, res, {},
                    \E blockdevices \in Listings("linux", MaxDisks) :
                       enter_choose(list_disks_linux(blockdevices), {}),
                    UNCHANGED <<disks, candidates>>)
    /\ UNCHANGED build
    /\ UNCHANGED <<headers, disk, authorized, sel, typed, resp, confirmPrompts, ip,
                   mounts>>

----------------------------------------------------------------------------
(* The two prompts *)

do_choose_disk ==
    /\ pc = "choose_disk"
    /\ \/ /\ KeyboardInterrupt({S_select})
          /\ UNCHANGED <<sel, disk, authorized, ip>>
       \/ \E line \in IndexInputs :
            /\ sel' = strip(line)
            /\ IF ~isdigit(sel')
               THEN /\ Goto("choose_disk", {S_select})
                    /\ UNCHANGED <<disk, authorized, ip>>
               ELSE IF IntRaises(sel')
               THEN /\ Uncaught("ValueError", {S_select})
                    /\ UNCHANGED <<disk, authorized, ip>>
               ELSE IF 0 <= int(sel') /\ int(sel') < Len(candidates)
               THEN enter_confirm(candidates[int(sel') + 1], {S_select})
               ELSE /\ Goto("choose_disk", {S_select})
                    /\ UNCHANGED <<disk, authorized, ip>>
    /\ UNCHANGED build
    /\ UNCHANGED <<headers, disks, candidates, typed, resp, confirmPrompts, mounts,
                   cmds>>

do_confirm_destruction ==
    /\ pc = "confirm_destruction"
    /\ confirmPrompts' = confirmPrompts + 1
    /\ \/ /\ KeyboardInterrupt({S_type})
          /\ UNCHANGED <<typed, resp, authorized, ip>>
       \/ \E line \in ResponseInputs(Phrase(disk), Phrase(candidates[1])) :
            /\ typed' = line
            /\ resp' = strip(line)
            /\ IF mismatch(resp', Phrase(disk))
               THEN /\ abort_confirm
                    /\ UNCHANGED <<authorized, ip>>
               ELSE enter_flash(disk, {S_type})
    /\ UNCHANGED build
    /\ UNCHANGED <<headers, disks, candidates, disk, sel, mounts, cmds>>

----------------------------------------------------------------------------
(* Flash Executor *)

selection == <<headers, disks, candidates, disk, authorized, sel, typed, resp,
               confirmPrompts>>

do_unmountDisk ==
    /\ pc = "flash" /\ step.cmd = "diskutil unmountDisk"
    /\ \E res \in Results :
         run(step.cmd, disk.path, "", step.check, res, {}, advance, UNCHANGED ip)
    /\ UNCHANGED <<build, selection, mounts>>

do_unmount_all_linux ==
    /\ pc = "flash" /\ step.cmd = "unmount_all_linux"
    /\ \E res \in Results :
         run("lsblk -J", disk.path, "", step.check, res, {},
             \E n \in 0..MaxMounts :
                /\ mounts' = [i \in 1..n |-> S_mnt \o <<DevDigits[i]>>]
                /\ IF n = 0 THEN advance
                   ELSE /\ ip' = ip
                        /\ Goto("unmount_all_linux", {}),
             UNCHANGED <<ip, mounts>>)
    /\ UNCHANGED <<build, selection>>

do_umount ==
    /\ pc = "unmount_all_linux"
    /\ \E res \in Results :
         run("umount", Head(mounts), "", umount_check, res, {"- Unmount"},
             /\ mounts' = Tail(mounts)
             /\ IF Tail(mounts) = <<>> THEN advance
                ELSE /\ ip' = ip
                     /\ Goto("unmount_all_linux", {"- Unmount"}),
             UNCHANGED <<ip, mounts>>)
    /\ UNCHANGED <<build, selection>>

do_dd ==
    /\ pc = "flash" /\ step.cmd = "dd"
    /\ \E res \in Results :
         run("dd", dd_of(disk), args.image, step.check, res, {"- Running: dd"},
             advance, UNCHANGED ip)
    /\ UNCHANGED <<build, selection, mounts>>

do_sync ==
    /\ pc = "flash" /\ step.cmd = "sync"
    /\ \E res \in Results :
         run("sync", <<>>, "", step.check, res, {}, advance, UNCHANGED ip)
    /\ UNCHANGED <<build, selection, mounts>>

do_eject ==
    /\ pc = "flash" /\ step.cmd = "diskutil eject"
    /\ \E res \in Results :
         run(step.cmd, disk.path, "", step.check, res, {}, advance, UNCHANGED ip)
    /\ UNCHANGED <<build, selection, mounts>>

do_power_off ==
    /\ pc = "flash" /\ step.cmd = "udisksctl power-off"
    /\ \E which_udisksctl \in BOOLEAN :
         IF ~which_udisksctl
         THEN /\ UNCHANGED cmds
              /\ advance
         ELSE \E res \in Results :
                run(step.cmd, disk.path, "", step.check, res, {}, advance,
                    UNCHANGED ip)
    /\ UNCHANGED <<build, selection, mounts>>

Next ==
    \/ ensure_image_build
    \/ ensure_image_create
    \/ ensure_image_format
    \/ ensure_image_copy
    \/ do_list_disks_macos
    \/ do_diskutil_info
    \/ do_list_disks_linux
    \/ do_choose_disk
    \/ do_confirm_destruction
    \/ do_unmountDisk
    \/ do_unmount_all_linux
    \/ do_umount
    \/ do_dd
    \/ do_sync
    \/ do_eject
    \/ do_power_off

Spec == Init /\ [][Next]_vars

----------------------------------------------------------------------------
(* Properties *)

Issued(names) == {i \in DOMAIN cmds : cmds[i].cmd \in names}
UnmountCmds == {"diskutil unmountDisk", "lsblk -J", "umount"}
FinalizeCmds == {"diskutil eject", "udisksctl power-off"}
FlashCmds == UnmountCmds \cup {"dd", "sync"} \cup FinalizeCmds
S_done == "Done. You can now remove the USB drive."

\* C1: the dd write is executed only after confirm_destruction returned
\* normally for the very Disk choose_disk returned, and dd's output device is
\* that Disk's display_path on macOS and its path on Linux.
C1_WriteOnlyAfterAuthorization ==
    \A i \in Issued({"dd"}) :
       /\ authorized # NoDisk
       /\ authorized = disk
       /\ \E k \in DOMAIN candidates : candidates[k] = authorized
       /\ cmds[i].arg = IF platform = "darwin" THEN authorized.display_path
                        ELSE authorized.path
       /\ args.yes \/ typed # None

C1_Witness ==
    /\ platform = "darwin" /\ ~args.yes
    /\ Len(candidates) = 2 /\ disk = candidates[2]
    /\ \E i \in Issued({"dd"}) : cmds[i].res = "ok"

\* C2 as stated: authorization iff auto_yes or the typed line is exactly
\* the phrase; any other line aborts with exit code 3.
C2_ExactLineOnly ==
    /\ typed # None =>
          /\ (authorized = disk) <=> (typed = Phrase(disk))
          /\ typed # Phrase(disk) => pc = "exit" /\ exitCode = 3
    /\ authorized # NoDisk => args.yes \/ typed = Phrase(authorized)

\* C2 amended: authorization iff auto_yes or the typed line, with leading and
\* trailing whitespace removed, is exactly the phrase "ERASE <disk.path>";
\* any other line (other letter case, inner whitespace, partial) aborts with
\* exit code 3.
C2_StrippedLineOnly ==
    /\ args.yes /\ disk # NoDisk => authorized = disk /\ confirmPrompts = 0
    /\ typed # None =>
          /\ ~args.yes
          /\ (authorized = disk) <=> (strip(typed) = S_ERASE \o disk.path)
          /\ strip(typed) # S_ERASE \o disk.path =>
                authorized = NoDisk /\ pc = "exit" /\ exitCode = 3
    /\ authorized # NoDisk => args.yes \/ strip(typed) = S_ERASE \o authorized.path

C2_Witness ==
    /\ typed # None /\ typed # Phrase(disk) /\ strip(typed) = Phrase(disk)
    /\ authorized = disk /\ Issued({"dd"}) # {}

\* C3: the gate is single-attempt: after a mismatched response the run has
\* ended with exit code 3, the confirmation prompt was shown once only, and
\* no unmount, write, sync or eject/power-off command was executed.
C3_SingleAttempt ==
    /\ confirmPrompts <= 1
    /\ typed # None /\ strip(typed) # Phrase(disk) =>
          /\ pc = "exit" /\ exitCode = 3
          /\ confirmPrompts = 1
          /\ Issued(FlashCmds) = {}

C3_Witness ==
    /\ typed = lower(Phrase(disk)) /\ typed # Phrase(disk)
    /\ pc = "exit" /\ exitCode = 3

\* choose_disk was called and got as far as its filter's result.
ChooseCalled ==
    printed \cap {"Available disks:",
                  "No suitable disks found. Try --include-internal to show all."} # {}

\* C4: the candidates choose_disk offers are the removable disks when
\* include_internal is false and the whole list when it is true, in input
\* order.
C4_CandidateFilter ==
    ChooseCalled =>
       candidates = IF args.include_internal THEN disks
                    ELSE SelectSeq(disks, LAMBDA d : d.removable)

C4_Witness ==
    /\ ChooseCalled /\ ~args.include_internal
    /\ Len(disks) = 2 /\ Len(candidates) = 1 /\ candidates[1] = disks[2]

\* A decimal integer that indexes the candidate list.
ValidIndex(s, n) ==
    /\ s # <<>>
    /\ \A i \in 1..Len(s) : s[i] \in {"0", "1", "2", "5"}
    /\ int(s) < n

\* C5: at the index prompt every input that is no valid in-range integer
\* index is rejected with a re-prompt (no disk selected, no unhandled error),
\* and a disk is returned only for a valid index i, and it is candidates[i].
C5_InvalidIndexReprompts ==
    [][pc = "choose_disk" /\ error' # "KeyboardInterrupt" =>
         /\ ~ValidIndex(sel', Len(candidates)) =>
               pc' = "choose_disk" /\ disk' = disk /\ error' = "none"
         /\ pc' # "choose_disk" =>
               /\ ValidIndex(sel', Len(candidates))
               /\ disk' = candidates[int(sel') + 1]]_vars

\* The enumerator returned its list to main.
Enumerated ==
    \/ "lsblk not found. Please install util-linux." \in printed
    \/ \E i \in Issued({"lsblk -J -o"}) : cmds[i].res = "ok"
    \/ /\ \E i \in Issued({"diskutil list"}) : cmds[i].res = "ok"
       /\ headers = <<>>

\* C6: when nothing is selectable (the enumeration is empty, or no disk is
\* removable and include_internal is false) the run ends with exit code 2,
\* neither prompt was shown and no unmount or write command was executed.
C6_NothingSelectable ==
    /\ Enumerated
    /\ disks = <<>> \/ (~args.include_internal /\ \A k \in DOMAIN disks : ~disks[k].removable)
    => /\ pc = "exit" /\ exitCode = 2
       /\ S_select \notin printed /\ S_type \notin printed
       /\ confirmPrompts = 0
       /\ Issued(FlashCmds) = {}

C6_Witness ==
    /\ Enumerated /\ Len(disks) = 2 /\ ~args.include_internal
    /\ \A k \in DOMAIN disks : ~disks[k].removable
    /\ pc = "exit"

\* C7: the flash steps come in the order UNMOUNT, WRITE, SYNC, FINALIZE:
\* every unmount command precedes the dd write, dd is executed at most once,
\* sync runs only after dd has completed, eject/power-off only after sync.
C7_LinearOrder ==
    /\ Cardinality(Issued({"dd"})) <= 1
    /\ \A j \in Issued({"dd"}) :
          /\ \E i \in Issued(UnmountCmds) : i < j
          /\ \A i \in Issued(UnmountCmds) : i < j /\ cmds[i].res # "intr"
    /\ \A j \in Issued({"sync"}) :
          \E i \in Issued({"dd"}) : i < j /\ cmds[i].res = "ok"
    /\ \A j \in Issued(FinalizeCmds) :
          \E i \in Issued({"sync"}) : i < j /\ cmds[i].res # "intr"
    /\ Cardinality(Issued({"sync"})) <= 1
    /\ Cardinality(Issued(FinalizeCmds)) <= 1

C7_Witness ==
    /\ Issued({"umount"}) # {} /\ Issued({"udisksctl power-off"}) # {}
    /\ pc = "exit" /\ exitCode = 0

\* C8: a non-zero exit of any command of the UNMOUNT step is not fatal: the
\* executor still goes on to the dd write.
C8_UnmountFailureNotFatal ==
    /\ pc = "exit"
    /\ error # "KeyboardInterrupt"
    /\ \E i \in Issued(UnmountCmds) : cmds[i].res = "fail"
    => Issued({"dd"}) # {}

\* C9: when dd exits non-zero the run ends as a failure: no sync, no
\* eject/power-off and no second write follow, the completion message is not
\* printed and the exit code is not 0.
C9_WriteFailureFatal ==
    \A i \in Issued({"dd"}) :
       cmds[i].res = "fail" =>
          /\ pc = "exit" /\ exitCode = 1 /\ error = "CalledProcessError"
          /\ i = Len(cmds)
          /\ S_done \notin printed

C9_Witness ==
    /\ platform = "darwin"
    /\ \E i \in Issued({"dd"}) : cmds[i].res = "fail"

\* C10: once dd has succeeded, a non-zero exit of sync or of
\* eject/power-off changes nothing: the remaining steps run, completion is
\* reported and the run ends with exit code 0.
C10_BestEffortAfterWrite ==
    /\ \A i \in Issued({"sync"} \cup FinalizeCmds) :
          cmds[i].res = "fail" =>
             error # "CalledProcessError" /\ exitCode \in {-1, 0}
    /\ /\ pc = "exit"
       /\ error # "KeyboardInterrupt"
       /\ \E i \in Issued({"dd"}) : cmds[i].res = "ok"
       => /\ exitCode = 0 /\ error = "none"
          /\ S_done \in printed
          /\ Issued({"sync"}) # {}
          /\ platform = "darwin" => Issued({"diskutil eject"}) # {}

C10_Witness ==
    /\ pc = "exit" /\ exitCode = 0 /\ S_done \in printed
    /\ \E i \in Issued({"sync"}) : cmds[i].res = "fail"
    /\ \E i \in Issued(FinalizeCmds) : cmds[i].res = "fail"

BuildCmds == {"cargo build", "qemu-img create", "mformat", "mcopy"}
EnumCmds == {"diskutil list", "diskutil info", "lsblk -J -o"}
S_warning == "WARNING: This will ERASE all data on:"

\* ensure_image ran all its commands and each returned success.
BuildDone ==
    /\ \E i \in Issued({"mformat"}) : cmds[i].res = "ok"
    /\ \A i \in Issued(BuildCmds) : cmds[i].res = "ok"
    /\ items = <<>>

\* C11: the phases come in the order build, enumerate, select, confirm,
\* flash; none starts before its predecessor completed successfully, none is
\* skipped and none is repeated.
C11_PhaseOrder ==
    /\ \A i \in Issued(EnumCmds) :
          /\ BuildDone /\ args.image \in fs
          /\ \A j \in Issued(BuildCmds) : j < i
    /\ ChooseCalled \/ S_select \in printed =>
          /\ Enumerated
          /\ \A i \in Issued(EnumCmds) : cmds[i].res # "intr"
    /\ S_warning \in printed =>
          /\ S_select \in printed
          /\ \E k \in DOMAIN candidates : candidates[k] = disk
    /\ confirmPrompts > 0 => S_warning \in printed
    /\ \A i \in Issued(FlashCmds) :
          /\ S_warning \in printed
          /\ authorized = disk /\ disk # NoDisk
          /\ args.yes \/ confirmPrompts = 1
          /\ \A j \in Issued(BuildCmds \cup EnumCmds) : j < i
    /\ \A c \in {"cargo build", "qemu-img create", "mformat", "diskutil list",
                 "lsblk -J -o", "dd"} : Cardinality(Issued({c})) <= 1
    /\ confirmPrompts <= 1
    /\ S_done \in printed =>
          /\ BuildDone /\ Enumerated /\ S_select \in printed
          /\ S_warning \in printed /\ Issued({"dd"}) # {}

C11_Witness ==
    /\ S_done \in printed /\ platform = "linux" /\ ~args.yes
    /\ Issued({"umount"}) # {}

\* C12: every run that ends has an exit code naming its outcome: 0 exactly
\* when the flash completed, 1 for a build or image-missing failure, 2 when no
\* eligible disk was found, 3 when the confirmation was aborted; a run that
\* ends without the completed write (a failure, or an operator interrupt)
\* ends with a non-zero code.
C12_ExitCodeNamesOutcome ==
    pc = "exit" =>
       /\ exitCode \in {0, 1, 2, 3}
       /\ (exitCode = 0) <=> (S_done \in printed)
       /\ (\E i \in Issued(BuildCmds) : cmds[i].res = "fail") => exitCode = 1
       /\ "Image not found" \in printed => exitCode = 1
       /\ Enumerated /\ candidates = <<>> => exitCode = 2
       /\ "Aborted." \in printed => exitCode = 3
       /\ (\A i \in Issued({"dd"}) : cmds[i].res # "ok") => exitCode # 0

\* C13: when the build succeeded but the image file is missing the run ends
\* with exit code 1 before any enumeration, prompt, unmount or write; and
\* whenever enumeration starts the image file to be flashed exists.
C13_ImageExistsBeforeEnumeration ==
    /\ BuildDone /\ args.image \notin fs =>
          /\ pc = "exit" /\ exitCode = 1
          /\ Issued(EnumCmds \cup FlashCmds) = {}
          /\ ~Enumerated /\ ~ChooseCalled
          /\ S_select \notin printed /\ S_type \notin printed
    /\ \/ Issued(EnumCmds) # {}
       \/ Enumerated
       \/ pc \in {"list_disks", "diskutil info"}
       => BuildDone /\ args.image \in fs

C13_Witness ==
    /\ BuildDone /\ args.image \notin fs
    /\ pc = "exit" /\ "Image not found" \in printed

\* C14: whenever dd is executed, the device written belongs to the list the
\* enumerator returned in this run and, unless --include-internal was given,
\* its Disk is removable; a disk that is not removable is never written
\* without --include-internal.
C14_OnlyEligibleDiskWritten ==
    \A i \in Issued({"dd"}) :
       /\ \E k \in DOMAIN disks :
             /\ disks[k] = disk
             /\ cmds[i].arg = IF platform = "darwin" THEN disks[k].display_path
                              ELSE disks[k].path
             /\ ~args.include_internal => disks[k].removable
       /\ \A k \in DOMAIN disks :
             ~args.include_internal /\ ~disks[k].removable =>
                cmds[i].arg \notin {disks[k].path, disks[k].display_path}

C14_Witness ==
    /\ ~args.include_internal /\ args.yes
    /\ \E k \in DOMAIN disks : ~disks[k].removable
    /\ \E i \in Issued({"dd"}) : cmds[i].res = "ok"

\* C15: for every value of --image, the file dd copies onto the device is
\* the image the builder produced in this run: the path ensure_image creates
\* and the path passed to dd denote the same file.
C15_FlashedImageIsBuiltImage ==
    \A i \in Issued({"dd"}) :
       \E j \in Issued({"qemu-img create"}) :
          /\ j < i /\ cmds[j].res = "ok"
          /\ cmds[i].src = cmds[j].src

CheckedCmds ==
    BuildCmds \cup {"diskutil list", "lsblk -J -o", "dd"}

\* C16: every checked external command (build, image creation, format,
\* copy-into-image, disk listing, the dd write) runs with check on and is
\* executed at most once per run; a non-zero exit of a checked command is the
\* last command of the run, which ends at once with CalledProcessError; a
\* non-zero exit of a best-effort command raises nothing and the pipeline
\* goes on to its next step.
C16_CheckedHaltBestEffortContinue ==
    /\ \A i \in Issued(CheckedCmds) : cmds[i].check
    /\ \A i, j \in DOMAIN cmds :
          /\ cmds[i].check /\ cmds[j].check
          /\ cmds[i].cmd = cmds[j].cmd
          /\ cmds[i].arg = cmds[j].arg /\ cmds[i].src = cmds[j].src
          => i = j
    /\ \A i \in DOMAIN cmds :
          cmds[i].check /\ cmds[i].res = "fail" =>
             /\ i = Len(cmds)
             /\ pc = "exit" /\ exitCode = 1 /\ error = "CalledProcessError"
             /\ S_done \notin printed
    /\ \A i \in DOMAIN cmds :
          ~cmds[i].check /\ cmds[i].res = "fail" /\ i = Len(cmds) =>
             /\ error # "CalledProcessError"
             /\ cmds[i].cmd \in UnmountCmds \cup FinalizeCmds =>
                   pc # "exit" \/ S_done \in printed

C16_Witness ==
    /\ S_done \in printed
    /\ \E i \in Issued(FinalizeCmds) : cmds[i].res = "fail"
    /\ \E i \in Issued({"mcopy"}) : i > 1

----------------------------------------------------------------------------
(* The Image Builder run repeatedly over arbitrary staging directories *)

MaxRuns == 2           \* invocations of the builder in succession

StagePaths ==
    S_staged \cup { <<"EFI", "BOOT", "old.efi">>, <<"EFI", "stale.bin">>,
                    <<"stale.txt">>, <<"NvVars">> }

\* The staging directory before the first run: absent, empty, or any files.
PriorStagings ==
    {[exists |-> FALSE, files |-> {}]} \cup
    {[exists |-> TRUE, files |-> fl] : fl \in SUBSET StagePaths}

InitStage ==
    /\ pc = "ensure_image"
    /\ platform = "linux"
    /\ args = [image |-> S_default_image, yes |-> FALSE,
               include_internal |-> FALSE]
    /\ fs = {}
    /\ staging \in PriorStagings
    /\ prior = <<staging>>
    /\ parsed = <<>>
    /\ items = <<>> /\ headers = <<>> /\ disks = <<>> /\ candidates = <<>>
    /\ disk = NoDisk /\ authorized = NoDisk
    /\ sel = <<>> /\ typed = None /\ resp = <<>>
    /\ confirmPrompts = 0 /\ ip = 0 /\ mounts = <<>>
    /\ cmds = <<>> /\ printed = {} /\ error = "none" /\ exitCode = -1

\* The script is started again once ensure_image of the previous run returned:
\* the file system is what that run left, everything else starts afresh.
run_again ==
    /\ pc = "list_disks" /\ Len(prior) < MaxRuns
    /\ prior' = Append(prior, staging)
    /\ pc' = "ensure_image"
    /\ cmds' = <<>> /\ printed' = {} /\ items' = <<>>
    /\ UNCHANGED <<platform, args, fs, staging, parsed, error, exitCode>>
    /\ UNCHANGED rest

NextStage ==
    \/ ensure_image_build
    \/ ensure_image_create
    \/ ensure_image_format
    \/ ensure_image_copy
    \/ run_again

SpecStage == InitStage /\ [][NextStage]_vars

\* C20: for any prior contents of the staging directory (absent, empty,
\* stale files), once the build command of a run has succeeded the staging
\* tree holds exactly EFI/BOOT/BOOTX64.EFI and startup.nsh, staging it again
\* changes nothing, only these entries are copied into the image, and a
\* second run in succession starts from and ends with that same file set.
C20_StagingIdempotent ==
    /\ (\E i \in Issued({"cargo build"}) : cmds[i].res = "ok") =>
          /\ staging = [exists |-> TRUE, files |-> S_staged]
          /\ restage(staging) = staging
    /\ \A i \in Issued({"mcopy"}) : cmds[i].src \in {"EFI", "startup.nsh"}
    /\ \A k \in 2..Len(prior) : prior[k] = [exists |-> TRUE, files |-> S_staged]

C20_Witness ==
    /\ Len(prior) = 2
    /\ prior[1].files \ S_staged # {}
    /\ pc = "list_disks"
    /\ staging.files = S_staged

----------------------------------------------------------------------------
(* The two enumerators over the tool outputs they can be given *)

S_sata == <<"s", "a", "t", "a">>
S_vendor == <<"A", "T", "A", " ">>
S_model == <<"F", "l", "a", "s", "h", " ">>
S_image == <<"d", "i", "s", "k", " ", "i", "m", "a", "g", "e">>

\* list_disks_macos after the tools ran: hs holds, for each header line that
\* header_re matched, its groups and the regex searches of its info output.
list_disks_macos(hs) == [i \in 1..Len(hs) |-> macos_disk(hs[i], hs[i].info)]

\* Header lines with any flag text, and info outputs with any of the three
\* fields missing, empty or padded.
MacEntries(i) ==
    LET dev == S_disk \o <<DevDigits[i]>>
    IN { [dev |-> dev, flags |-> f, info |-> info] :
         f \in {S_internal \o S_physical, S_external \o S_physical,
                S_synthesized, S_image,
                S_internal \o <<",", " ">> \o S_external},
         info \in InfoMatches }
       \cup
       { [dev |-> dev, flags |-> S_external \o S_physical,
          info |-> [size_match |-> sz, model_match |-> mm,
                    transport_match |-> tm]] :
         sz \in {None, S_size}, mm \in {None, <<>>, S_model},
         tm \in {None, <<>>, S_USB} }

\* Entries of "blockdevices" with any type, any JSON form of the rm flag
\* (util-linux before 2.33 prints "0" and "1" as strings), any transport,
\* and missing, null or empty name, kname, vendor and model.
LsblkEntries(i) ==
    LET name == S_sd \o <<DevLetters[i]>>
    IN { [name |-> name, kname |-> name, type |-> t, rm |-> rm,
          size |-> S_size, model |-> None, tran |-> tr, vendor |-> None] :
         t \in {"disk", "part"},
         rm \in {"true", "false", "null", "\"0\"", "\"1\""},
         tr \in {None, S_USB, S_sata} }
       \cup
       { [name |-> n, kname |-> k, type |-> "disk", rm |-> "false",
          size |-> None, model |-> m, tran |-> None, vendor |-> v] :
         n \in {None, <<>>, name}, k \in {None, name},
         v \in {None, <<" ">>, S_vendor}, m \in {None, S_model} }

Entries(sys, i) == IF sys = "darwin" THEN MacEntries(i) ELSE LsblkEntries(i)

\* All tool outputs of at most n entries on platform sys.
RECURSIVE Outputs(_, _)
Outputs(sys, n) ==
    IF n = 0 THEN {<<>>}
    ELSE LET shorter == Outputs(sys, n - 1)
         IN shorter \cup
            { Append(l, d) : l \in {x \in shorter : Len(x) = n - 1},
                             d \in Entries(sys, n) }

InitEnum ==
    /\ pc = "list_disks"
    /\ platform \in {"darwin", "linux"}
    /\ args = [image |-> S_default_image, yes |-> FALSE,
               include_internal |-> FALSE]
    /\ fs = {args.image}
    /\ staging = [exists |-> TRUE, files |-> S_staged]
    /\ parsed = <<>> /\ prior = <<>>
    /\ items = <<>> /\ headers = <<>> /\ disks = <<>> /\ candidates = <<>>
    /\ disk = NoDisk /\ authorized = NoDisk
    /\ sel = <<>> /\ typed = None /\ resp = <<>>
    /\ confirmPrompts = 0 /\ ip = 0 /\ mounts = <<>>
    /\ cmds = <<>> /\ printed = {} /\ error = "none" /\ exitCode = -1

enum_macos ==
    /\ pc = "list_disks" /\ platform = "darwin"
    /\ \E hs \in Outputs("darwin", MaxDisks) :
          /\ parsed' = hs
          /\ disks' = list_disks_macos(hs)
    /\ pc' = "choose_disk"
    /\ UNCHANGED <<platform, args, fs, staging, items, headers, candidates,
                   disk, authorized, sel, typed, resp, confirmPrompts, ip,
                   mounts, cmds, printed, error, exitCode, prior>>

enum_linux ==
    /\ pc = "list_disks" /\ platform = "linux"
    /\ \E blockdevices \in Outputs("linux", MaxDisks) :
          /\ parsed' = blockdevices
          /\ disks' = list_disks_linux(blockdevices)
    /\ pc' = "choose_disk"
    /\ UNCHANGED <<platform, args, fs, staging, items, headers, candidates,
                   disk, authorized, sel, typed, resp, confirmPrompts, ip,
                   mounts, cmds, printed, error, exitCode, prior>>

NextEnum ==
    \/ enum_macos
    \/ enum_linux

SpecEnum == InitEnum /\ [][NextEnum]_vars

\* The entries of a listing that have type "disk", in order.
RECURSIVE OfTypeDisk(_)
OfTypeDisk(bd) ==
    IF bd = <<>> THEN <<>>
    ELSE IF Head(bd).type = "disk" THEN <<Head(bd)>> \o OfTypeDisk(Tail(bd))
         ELSE OfTypeDisk(Tail(bd))

\* The removable flag of a listing entry is set: JSON true, or 1 in the
\* string form of older lsblk.
FlagSet(rm) == rm \in {"true", "\"1\"", "1"}

\* C17: for every Disk produced by either enumerator, for any header flags
\* and any listing, removable and internal are never both true.
C17_NotBothRemovableAndInternal ==
    pc = "choose_disk" =>
       \A k \in DOMAIN disks : ~(disks[k].removable /\ disks[k].internal)

\* C18: list_disks_linux returns exactly one Disk per listed entry of type
\* "disk" and none for other types; each is removable iff the entry's
\* removable flag is set or its transport is USB in any letter case, and
\* internal is the negation of removable.
C18_LinuxClassification ==
    pc = "choose_disk" /\ platform = "linux" =>
       LET ds == OfTypeDisk(parsed)
       IN /\ Len(disks) = Len(ds)
          /\ \A k \in DOMAIN disks :
                /\ disks[k].path = S_dev \o Fmt(Or(ds[k].kname, ds[k].name))
                /\ disks[k].removable <=>
                      (FlagSet(ds[k].rm) \/ lower(Or(ds[k].tran, <<>>)) = S_usb)
                /\ disks[k].internal <=> ~disks[k].removable

\* C19: on either platform and for every tool output, missing, null or
\* empty fields included, every returned Disk has a non-empty path and a
\* non-empty model.
C19_PathAndModelNonEmpty ==
    pc = "choose_disk" =>
       \A k \in DOMAIN disks :
          /\ ~Falsy(disks[k].path)
          /\ ~Falsy(disks[k].model)

====
